---- MODULE Spec2Model ----
(***************************************************************************)
(* LumaMap: a model of the activation engine (MIDI decoder, active-notes   *)
(* store, shape matcher and opacity) and of the authoring surface of       *)
(* ProjectionCanvas (draw, commit, cancel, select, drag) together with the *)
(* shape registry kept by App.                                             *)
(*                                                                         *)
(* Every handler runs to completion and React re-renders before the next   *)
(* event is handled, so one action is one handler plus the re-render that  *)
(* follows it (the re-render refreshes the refs and re-binds the effects   *)
(* whose dependencies changed).                                            *)
(*                                                                         *)
(* Modelling conventions                                                   *)
(*  - a Uint8Array is a sequence of bytes; JS index i is TLA+ index i+1;    *)
(*  - the JS value undefined is the integer Undefined (no byte, note or    *)
(*    coordinate of the model has that value);                             *)
(*  - a Map<string, ActiveNote> is a function from its string keys to      *)
(*    [velocity |-> v]; the timestamp field is written (Date.now()) and    *)
(*    never read anywhere in the repository, and is left out;              *)
(*  - a shape id (crypto.randomUUID()) is a fresh positive integer, and    *)
(*    null is Null;                                                        *)
(*  - point indices are 1-based: the JS index i is the TLA+ index i+1;      *)
(*  - baseOpacity is kept in hundredths (1.0 is 100) and an opacity is the *)
(*    exact rational value times OpacityScale.                             *)
(***************************************************************************)
EXTENDS Integers, Sequences, FiniteSets, TLC

VARIABLES
    \* App (part_000)
    shapes,              \* useState<Shape[]>
    selectedShapeId,     \* useState<string | null>
    activeNotes,         \* useState<ActiveNotesMap>, what rendering reads
    activeNotesRef,      \* useRef<ActiveNotesMap>, what handleMidiMessage reads
    mode,                \* useState<AppMode>
    \* ProjectionCanvas (part_002)
    drawingPoints,       \* useState<Point[]>
    isDrawing,           \* useState(false)
    draggedPointIndex,   \* useState<number | null>
    keydownShapes,       \* the `shapes` closed over by the registered keydown listener
    \* history (not program state)
    nextId,              \* number of ids drawn so far, plus one
    lastNoteEvent,       \* per (channel, note): the kind of its last note-on/off event
    moveCount,           \* number of window mouse moves handled so far
    dragRegionId,        \* the shape whose handle the last handle mouse-down pressed
    handedMap,           \* the Map object the render before the last hardware event received, as it is now
    run,                 \* progress of a scripted session (NoRun when events are free)
    lastEvent,           \* the event handled by the last step
    prev                 \* a summary of the state the last step started from

vars == << shapes, selectedShapeId, activeNotes, activeNotesRef, mode,
           drawingPoints, isDrawing, draggedPointIndex, keydownShapes,
           nextId, lastNoteEvent, moveCount, dragRegionId, handedMap, run, lastEvent, prev >>

appVars == << shapes, selectedShapeId, mode >>
canvasVars == << drawingPoints, isDrawing, draggedPointIndex, keydownShapes >>

-----------------------------------------------------------------------------
(* Bounds and input alphabets *)

MaxShapes == 2
MaxDraw == 4
MaxMoves == 1

Null == 0
Undefined == 0 - 1

EDIT == "EDIT"
PERFORMANCE == "PERFORMANCE"

\* Channels, notes and velocities hardware events are drawn from.
Channels == {1, 16}
NoteBytes == {60, 61}
VelBytes == {0, 64, 127}

-----------------------------------------------------------------------------
(* utils/midiUtils.ts *)

\* data[i] of a Uint8Array: undefined past the end.
At(data, i) == IF i + 1 <= Len(data) THEN data[i + 1] ELSE Undefined

\* ToInt32 of a byte or of undefined (NaN converts to 0).
ToInt32(v) == IF v = Undefined THEN 0 ELSE v

\* Template-literal conversion of a number or undefined.
ToStr(v) == IF v = Undefined THEN "undefined" ELSE ToString(v)

\* parseMidiMessage with a channel numbered from 0.
parseMidiMessage_ZeroBasedChannel(data) ==
    [ command  |-> ToInt32(At(data, 0)) \div 16,
      channel  |-> ToInt32(At(data, 0)) % 16,
      note     |-> At(data, 1),
      velocity |-> IF Len(data) > 2 THEN At(data, 2) ELSE 0 ]

\* parseMidiMessage taking a missing velocity byte to be 64.
parseMidiMessage_DefaultVelocity(data) ==
    [ command  |-> ToInt32(At(data, 0)) \div 16,
      channel  |-> (ToInt32(At(data, 0)) % 16) + 1,
      note     |-> At(data, 1),
      velocity |-> IF Len(data) > 2 THEN At(data, 2) ELSE 64 ]

parseMidiMessage(data) ==
    [ command  |-> ToInt32(At(data, 0)) \div 16,
      channel  |-> (ToInt32(At(data, 0)) % 16) + 1,
      note     |-> At(data, 1),
      velocity |-> IF Len(data) > 2 THEN At(data, 2) ELSE 0 ]

getNoteKey(channel, note) == ToStr(channel) \o "-" \o ToStr(note)

-----------------------------------------------------------------------------
(* Map operations *)

EmptyMap == [k \in {} |-> 0]

MapHas(m, key) == key \in DOMAIN m

MapSet(m, key, val) == [k \in (DOMAIN m) \cup {key} |-> IF k = key THEN val ELSE m[k]]

MapDelete(m, key) == [k \in (DOMAIN m) \ {key} |-> m[k]]

-----------------------------------------------------------------------------
(* App.handleMidiMessage *)

\* handleMidiMessage without its note-off branch for command 8.
handleMidiMessageMap_NoOff(m, data) ==
    LET msg == parseMidiMessage(data)
        key == getNoteKey(msg.channel, msg.note)
    IN  IF msg.command = 9 /\ msg.velocity > 0
        THEN MapSet(m, key, [velocity |-> msg.velocity])
        ELSE IF msg.command = 9 /\ msg.velocity = 0
             THEN MapDelete(m, key)
             ELSE m

\* handleMidiMessage storing every note-on, those of velocity 0 too.
handleMidiMessageMap_ZeroIsOn(m, data) ==
    LET msg == parseMidiMessage(data)
        key == getNoteKey(msg.channel, msg.note)
    IN  IF msg.command = 9
        THEN MapSet(m, key, [velocity |-> msg.velocity])
        ELSE IF msg.command = 8
             THEN MapDelete(m, key)
             ELSE m

\* handleMidiMessage with a note-off that toggles: it stores an entry of
\* velocity 0 when the key has none.
handleMidiMessageMap_Toggle(m, data) ==
    LET msg == parseMidiMessage(data)
        key == getNoteKey(msg.channel, msg.note)
    IN  IF msg.command = 9 /\ msg.velocity > 0
        THEN MapSet(m, key, [velocity |-> msg.velocity])
        ELSE IF msg.command = 8 \/ (msg.command = 9 /\ msg.velocity = 0)
             THEN IF MapHas(m, key)
                  THEN MapDelete(m, key)
                  ELSE MapSet(m, key, [velocity |-> 0])
             ELSE m

\* handleMidiMessage with a note-on that only refreshes the entry of a key
\* that has one.
handleMidiMessageMap_OnNeedsEntry(m, data) ==
    LET msg == parseMidiMessage(data)
        key == getNoteKey(msg.channel, msg.note)
    IN  IF msg.command = 9 /\ msg.velocity > 0
        THEN IF MapHas(m, key)
             THEN MapSet(m, key, [velocity |-> msg.velocity])
             ELSE m
        ELSE IF msg.command = 8 \/ (msg.command = 9 /\ msg.velocity = 0)
             THEN MapDelete(m, key)
             ELSE m

\* handleMidiMessage taking a polyphonic aftertouch (command 10) for a new
\* velocity of the key.
handleMidiMessageMap_AftertouchSets(m, data) ==
    LET msg == parseMidiMessage(data)
        key == getNoteKey(msg.channel, msg.note)
    IN  IF (msg.command = 9 \/ msg.command = 10) /\ msg.velocity > 0
        THEN MapSet(m, key, [velocity |-> msg.velocity])
        ELSE IF msg.command = 8 \/ (msg.command = 9 /\ msg.velocity = 0)
             THEN MapDelete(m, key)
             ELSE m

\* The map handleMidiMessage leaves in activeNotesRef.current, from the map m it
\* found there and the event's bytes.
handleMidiMessageMap(m, data) ==
    LET msg == parseMidiMessage(data)
        key == getNoteKey(msg.channel, msg.note)
    IN  IF msg.command = 9 /\ msg.velocity > 0
        THEN MapSet(m, key, [velocity |-> msg.velocity])
        ELSE IF msg.command = 8 \/ (msg.command = 9 /\ msg.velocity = 0)
             THEN MapDelete(m, key)
             ELSE m

-----------------------------------------------------------------------------
(* ProjectionCanvas.isShapeActive and the fill opacity of a rendered shape *)

MaxOf(a, b) == IF a >= b THEN a ELSE b

\* The matcher keeping the velocity of the first match it finds.
MatchKey_First(notes, key, acc) ==
    IF MapHas(notes, key)
    THEN [active |-> TRUE,
          velocity |-> IF acc.active THEN acc.velocity ELSE notes[key].velocity]
    ELSE acc

\* One evaluation of the body `if (activeNotes.has(key)) {...}` for a key.
MatchKey(notes, key, acc) ==
    IF MapHas(notes, key)
    THEN [active |-> TRUE, velocity |-> MaxOf(acc.velocity, notes[key].velocity)]
    ELSE acc

\* for (let ch = ch0; ch <= 16; ch++) { ... }
RECURSIVE OmniLoop(_, _, _, _)
OmniLoop(notes, note, ch, acc) ==
    IF ch <= 16
    THEN OmniLoop(notes, note, ch + 1, MatchKey(notes, getNoteKey(ch, note), acc))
    ELSE acc

\* for (let note = note0; note <= shape.noteEnd; note++) { ... }
RECURSIVE NoteLoop(_, _, _, _)
NoteLoop(shape, notes, note, acc) ==
    IF note <= shape.noteEnd
    THEN NoteLoop(shape, notes, note + 1,
                  IF shape.channel = 0
                  THEN OmniLoop(notes, note, 1, acc)
                  ELSE MatchKey(notes, getNoteKey(shape.channel, note), acc))
    ELSE acc

\* The matcher with a note range that is open at noteStart.
isShapeActive_OpenStart(shape) ==
    NoteLoop(shape, activeNotes, shape.noteStart + 1, [active |-> FALSE, velocity |-> 0])

\* isShapeActive(shape), reading the activeNotes prop of the current render.
isShapeActive(shape) ==
    NoteLoop(shape, activeNotes, shape.noteStart, [active |-> FALSE, velocity |-> 0])

\* Opacities are exact rationals times OpacityScale (baseOpacity is in hundredths).
OpacityScale == 127 * 100

\* The render scaling every active shape by velocity, velocity-sensitive or not.
Opacity_AlwaysScaled(shape) ==
    LET r == isShapeActive(shape)
    IN  IF r.active
        THEN r.velocity * shape.baseOpacity
        ELSE IF mode = EDIT
             THEN (2 * OpacityScale) \div 10
             ELSE 0

\* The render giving full base opacity from half velocity upward.
Opacity_Stepped(shape) ==
    LET r == isShapeActive(shape)
    IN  IF r.active
        THEN IF shape.velocitySensitive
             THEN (IF r.velocity >= 64 THEN 127 ELSE r.velocity) * shape.baseOpacity
             ELSE 127 * shape.baseOpacity
        ELSE IF mode = EDIT
             THEN (2 * OpacityScale) \div 10
             ELSE 0

\* The fillOpacity the render gives the shape's polygon.
Opacity(shape) ==
    LET r == isShapeActive(shape)
    IN  IF r.active
        THEN IF shape.velocitySensitive
             THEN r.velocity * shape.baseOpacity        \* (velocity / 127) * baseOpacity
             ELSE 127 * shape.baseOpacity               \* baseOpacity
        ELSE IF mode = EDIT
             THEN (2 * OpacityScale) \div 10            \* 0.2
             ELSE 0

-----------------------------------------------------------------------------
(* ProjectionCanvas: coordinates *)

\* svgRef.current.getBoundingClientRect(): where the surface lies in the window.
Rect == [left |-> 100, top |-> 50, width |-> 400, height |-> 200]

\* Pointer positions (clientX, clientY) of clicks, which land on the surface, and
\* of window mouse moves, which may leave it.  Every position here divides
\* exactly in getCoords.
ClickPositions == { <<200, 150>>, <<400, 100>> }
MovePositions == { <<0, 300>>, <<600, 0>>, <<300, 150>> }

getCoords(clientX, clientY) ==
    [ x |-> ((clientX - Rect.left) * 100) \div Rect.width,
      y |-> ((clientY - Rect.top) * 100) \div Rect.height ]

MinOf(a, b) == IF a <= b THEN a ELSE b

\* The clamp without its upper limit: Math.max(0, v).
Clamp_NoUpper(v) == MaxOf(0, v)

\* Math.max(0, Math.min(100, v))
Clamp(v) == MaxOf(0, MinOf(100, v))

\* An element of a sparse array that was never assigned.
Hole == [x |-> Undefined, y |-> Undefined]

\* newPoints = [...points]; newPoints[index] = point   (index is 1-based here; an
\* index past the end lengthens the array and leaves holes)
SetPoint(points, index, point) ==
    [i \in 1..MaxOf(Len(points), index) |->
        IF i = index THEN point
        ELSE IF i <= Len(points) THEN points[i] ELSE Hole]

-----------------------------------------------------------------------------
(* App: the shape registry *)

ShapeIds(list) == {list[i].id : i \in DOMAIN list}

\* list.find(s => s.id === id): the index of the first match, 0 if none.
FindIndex(list, id) ==
    IF id \in ShapeIds(list)
    THEN CHOOSE i \in DOMAIN list :
            /\ list[i].id = id
            /\ \A j \in 1..(i - 1) : list[j].id # id
    ELSE 0

\* list.filter(s => s.id !== id)
RECURSIVE FilterOut(_, _)
FilterOut(list, id) ==
    IF list = << >> THEN << >>
    ELSE IF Head(list).id # id
         THEN << Head(list) >> \o FilterOut(Tail(list), id)
         ELSE FilterOut(Tail(list), id)

\* The shape handleNewShape builds; `closed` is the `shapes` of its closure.
NewShape(closed, id, points) ==
    [ id                |-> id,
      name              |-> "Shape " \o ToString(Len(closed) + 1),
      points            |-> points,
      channel           |-> 0,
      noteStart         |-> 60,
      noteEnd           |-> 60,
      color             |-> "#00ffcc",
      velocitySensitive |-> FALSE,
      baseOpacity       |-> 100 ]

\* handleNewShape(points) called through a closure whose `shapes` is `closed`.
handleNewShape(closed, points) ==
    /\ shapes' = Append(closed, NewShape(closed, nextId, points))
    /\ selectedShapeId' = nextId
    /\ nextId' = nextId + 1

\* updateShape(updated), through a closure of the current render.
updateShape(updated) ==
    shapes' = [i \in DOMAIN shapes |->
                  IF shapes[i].id = updated.id THEN updated ELSE shapes[i]]

\* deleteShape(id) leaving the selection as it is.
deleteShape_KeepsSelection(id) ==
    /\ shapes' = FilterOut(shapes, id)
    /\ selectedShapeId' = selectedShapeId

\* deleteShape(id), through a closure of the current render.
deleteShape(id) ==
    /\ shapes' = FilterOut(shapes, id)
    /\ selectedShapeId' = IF selectedShapeId = id THEN Null ELSE selectedShapeId

\* The keydown effect of ProjectionCanvas re-binds handleKeyDown only on a render
\* where isDrawing, drawingPoints or mode changed; the listener bound until then
\* keeps the onNewShapePoints (and so the `shapes`) of the render that bound it.
RebindKeydown ==
    keydownShapes' =
        IF << isDrawing', drawingPoints', mode' >> # << isDrawing, drawingPoints, mode >>
        THEN shapes'
        ELSE keydownShapes

-----------------------------------------------------------------------------
(* ProjectionCanvas: the handlers.  Each leaves the history variables lastEvent,
   prev and lastNoteEvent to the step that uses it. *)

selectedShapeIndex == FindIndex(shapes, selectedShapeId)

\* handleSvgClick(e) without the return after deselecting: the click that
\* clears the selection goes on to start a draw session.
handleSvgClick_DeselectAndDraw(clientX, clientY, tagName) ==
    IF mode = PERFORMANCE
    THEN UNCHANGED << selectedShapeId, isDrawing, drawingPoints >>
    ELSE IF selectedShapeId # Null /\ ~isDrawing /\ tagName = "svg"
    THEN /\ selectedShapeId' = Null
         /\ isDrawing' = TRUE
         /\ drawingPoints' = << getCoords(clientX, clientY) >>
    ELSE IF ~isDrawing /\ selectedShapeId = Null
    THEN /\ isDrawing' = TRUE
         /\ drawingPoints' = << getCoords(clientX, clientY) >>
         /\ UNCHANGED selectedShapeId
    ELSE IF isDrawing
    THEN /\ drawingPoints' = Append(drawingPoints, getCoords(clientX, clientY))
         /\ UNCHANGED << selectedShapeId, isDrawing >>
    ELSE UNCHANGED << selectedShapeId, isDrawing, drawingPoints >>

\* handleSvgClick(e): the click's position and the tag of the element it landed on.
handleSvgClick(clientX, clientY, tagName) ==
    IF mode = PERFORMANCE
    THEN UNCHANGED << selectedShapeId, isDrawing, drawingPoints >>
    ELSE IF selectedShapeId # Null /\ ~isDrawing /\ tagName = "svg"
    THEN /\ selectedShapeId' = Null
         /\ UNCHANGED << isDrawing, drawingPoints >>
    ELSE IF ~isDrawing /\ selectedShapeId = Null
    THEN /\ isDrawing' = TRUE
         /\ drawingPoints' = << getCoords(clientX, clientY) >>
         /\ UNCHANGED selectedShapeId
    ELSE IF isDrawing
    THEN /\ drawingPoints' = Append(drawingPoints, getCoords(clientX, clientY))
         /\ UNCHANGED << selectedShapeId, isDrawing >>
    ELSE UNCHANGED << selectedShapeId, isDrawing, drawingPoints >>

\* A click on the surface's background: the <svg> onClick with the svg as target.
\* (The preview of the shape being drawn is pointer-events-none.)
SvgClick(clientX, clientY) ==
    /\ handleSvgClick(clientX, clientY, "svg")
    /\ UNCHANGED << shapes, mode, draggedPointIndex, nextId >>
    /\ UNCHANGED << activeNotes, activeNotesRef >>
    /\ RebindKeydown

\* The <g> onClick toggling: a click on the selected shape clears the selection.
ShapeClick_Toggle(id, clientX, clientY) ==
    /\ id \in ShapeIds(shapes)
    /\ IF mode = EDIT
       THEN /\ selectedShapeId' = IF selectedShapeId = id THEN Null ELSE id
            /\ UNCHANGED << isDrawing, drawingPoints >>
       ELSE handleSvgClick(clientX, clientY, "polygon")
    /\ UNCHANGED << shapes, mode, draggedPointIndex, nextId >>
    /\ UNCHANGED << activeNotes, activeNotesRef >>
    /\ RebindKeydown

\* A click on the polygon of shape `id`: the <g> onClick; in PERFORMANCE mode it
\* does not stop the event, which reaches handleSvgClick with the polygon as target.
ShapeClick(id, clientX, clientY) ==
    /\ id \in ShapeIds(shapes)
    /\ IF mode = EDIT
       THEN /\ selectedShapeId' = id
            /\ UNCHANGED << isDrawing, drawingPoints >>
       ELSE handleSvgClick(clientX, clientY, "polygon")
    /\ UNCHANGED << shapes, mode, draggedPointIndex, nextId >>
    /\ UNCHANGED << activeNotes, activeNotesRef >>
    /\ RebindKeydown

\* finishDrawing() accepting a session of two points.
finishDrawing_TwoPoints ==
    /\ IF Len(drawingPoints) >= 2
       THEN handleNewShape(keydownShapes, drawingPoints)
       ELSE UNCHANGED << shapes, selectedShapeId, nextId >>
    /\ drawingPoints' = << >>
    /\ isDrawing' = FALSE

\* finishDrawing(), as closed over by the registered keydown listener.
finishDrawing ==
    /\ IF Len(drawingPoints) >= 3
       THEN handleNewShape(keydownShapes, drawingPoints)
       ELSE UNCHANGED << shapes, selectedShapeId, nextId >>
    /\ drawingPoints' = << >>
    /\ isDrawing' = FALSE

\* handleKeyDown(e) with an Escape that finishes the session instead of
\* discarding it.
handleKeyDown_EscapeFinishes(key) ==
    IF mode = PERFORMANCE
    THEN UNCHANGED << shapes, selectedShapeId, nextId, drawingPoints, isDrawing >>
    ELSE IF (key = "Enter" \/ key = "Escape") /\ isDrawing
    THEN finishDrawing
    ELSE IF key = "Escape"
    THEN /\ selectedShapeId' = Null
         /\ UNCHANGED << shapes, nextId, drawingPoints, isDrawing >>
    ELSE UNCHANGED << shapes, selectedShapeId, nextId, drawingPoints, isDrawing >>

\* handleKeyDown(e) with an Escape that leaves the selection alone.
handleKeyDown_EscapeKeepsSelection(key) ==
    IF mode = PERFORMANCE
    THEN UNCHANGED << shapes, selectedShapeId, nextId, drawingPoints, isDrawing >>
    ELSE IF key = "Enter" /\ isDrawing
    THEN finishDrawing
    ELSE IF key = "Escape" /\ isDrawing
    THEN /\ drawingPoints' = << >>
         /\ isDrawing' = FALSE
         /\ UNCHANGED << shapes, selectedShapeId, nextId >>
    ELSE UNCHANGED << shapes, selectedShapeId, nextId, drawingPoints, isDrawing >>

\* handleKeyDown(e) without its return in PERFORMANCE mode.
handleKeyDown_AnyMode(key) ==
    IF key = "Enter" /\ isDrawing
    THEN finishDrawing
    ELSE IF key = "Escape"
    THEN IF isDrawing
         THEN /\ drawingPoints' = << >>
              /\ isDrawing' = FALSE
              /\ UNCHANGED << shapes, selectedShapeId, nextId >>
         ELSE /\ selectedShapeId' = Null
              /\ UNCHANGED << shapes, nextId, drawingPoints, isDrawing >>
    ELSE UNCHANGED << shapes, selectedShapeId, nextId, drawingPoints, isDrawing >>

\* handleKeyDown(e) of ProjectionCanvas.
handleKeyDown(key) ==
    IF mode = PERFORMANCE
    THEN UNCHANGED << shapes, selectedShapeId, nextId, drawingPoints, isDrawing >>
    ELSE IF key = "Enter" /\ isDrawing
    THEN finishDrawing
    ELSE IF key = "Escape"
    THEN IF isDrawing
         THEN /\ drawingPoints' = << >>
              /\ isDrawing' = FALSE
              /\ UNCHANGED << shapes, selectedShapeId, nextId >>
         ELSE /\ selectedShapeId' = Null
              /\ UNCHANGED << shapes, nextId, drawingPoints, isDrawing >>
    ELSE UNCHANGED << shapes, selectedShapeId, nextId, drawingPoints, isDrawing >>

\* handleGlobalKeyDown(e) of App.
handleGlobalKeyDown(key) ==
    mode' = IF key = "Escape" /\ mode = PERFORMANCE THEN EDIT ELSE mode

\* A keydown on the window: both listeners run, each on the state of the render
\* that bound it.
KeyDown(key) ==
    /\ handleKeyDown(key)
    /\ handleGlobalKeyDown(key)
    /\ UNCHANGED draggedPointIndex
    /\ UNCHANGED << activeNotes, activeNotesRef >>
    /\ RebindKeydown

\* onMouseDown of the i-th vertex handle; the handles are rendered for the
\* selected shape in EDIT mode while not drawing (map skips array holes).
HandleMouseDown(i) ==
    /\ mode = EDIT
    /\ selectedShapeIndex # 0
    /\ ~isDrawing
    /\ i \in DOMAIN shapes[selectedShapeIndex].points
    /\ shapes[selectedShapeIndex].points[i] # Hole
    /\ draggedPointIndex' = i
    /\ UNCHANGED << appVars, drawingPoints, isDrawing, keydownShapes, nextId >>
    /\ UNCHANGED << activeNotes, activeNotesRef >>

\* handleWindowMouseMove(e): bound while draggedPointIndex is not null; it reads
\* the shapes and the selection of the latest render through the refs.
handleWindowMouseMove(clientX, clientY) ==
    LET currentId == selectedShapeId
        index     == FindIndex(shapes, currentId)
        raw       == getCoords(clientX, clientY)
        point     == [x |-> Clamp(raw.x), y |-> Clamp(raw.y)]
    IN  IF currentId = Null \/ index = 0
        THEN UNCHANGED shapes
        ELSE updateShape([shapes[index] EXCEPT
                 !.points = SetPoint(shapes[index].points, draggedPointIndex, point)])

WindowMouseMove(clientX, clientY) ==
    /\ draggedPointIndex # Null
    /\ handleWindowMouseMove(clientX, clientY)
    /\ UNCHANGED << selectedShapeId, mode, canvasVars, nextId >>
    /\ UNCHANGED << activeNotes, activeNotesRef >>

\* handleWindowMouseUp(): bound while draggedPointIndex is not null.
WindowMouseUp ==
    /\ draggedPointIndex # Null
    /\ draggedPointIndex' = Null
    /\ UNCHANGED << appVars, drawingPoints, isDrawing, keydownShapes, nextId >>
    /\ UNCHANGED << activeNotes, activeNotesRef >>

-----------------------------------------------------------------------------
(* App: the header, the matrix overlay and the shape editor *)

\* The Perform button of the header (rendered in EDIT mode).
Perform ==
    /\ mode = EDIT
    /\ mode' = PERFORMANCE
    /\ UNCHANGED << shapes, selectedShapeId, nextId >>
    /\ UNCHANGED << drawingPoints, isDrawing, draggedPointIndex >>
    /\ UNCHANGED << activeNotes, activeNotesRef >>
    /\ RebindKeydown

\* The floating exit button (rendered in PERFORMANCE mode).
ExitPerformance ==
    /\ mode = PERFORMANCE
    /\ mode' = EDIT
    /\ UNCHANGED << shapes, selectedShapeId, nextId >>
    /\ UNCHANGED << drawingPoints, isDrawing, draggedPointIndex >>
    /\ UNCHANGED << activeNotes, activeNotesRef >>
    /\ RebindKeydown

\* MappingList, the overlay the header's Matrix button opens in EDIT mode
\* (showMatrix, a view flag that no handler reads, is not kept: a step below
\* stands for opening the overlay if need be and pressing the row's button).

\* MappingList: the Edit button of a row.
MatrixSelect(id) ==
    /\ mode = EDIT
    /\ id \in ShapeIds(shapes)
    /\ selectedShapeId' = id
    /\ UNCHANGED << shapes, mode, canvasVars, nextId >>
    /\ UNCHANGED << activeNotes, activeNotesRef >>

\* MappingList: the Delete button of a row.
MatrixDelete(id) ==
    /\ mode = EDIT
    /\ id \in ShapeIds(shapes)
    /\ deleteShape(id)
    /\ UNCHANGED << mode, canvasVars, nextId >>
    /\ UNCHANGED << activeNotes, activeNotesRef >>

\* ShapeEditor (rendered in EDIT mode for the selected shape): handleChange.
EditorChange(field, value) ==
    /\ mode = EDIT
    /\ selectedShapeIndex # 0
    /\ updateShape([shapes[selectedShapeIndex] EXCEPT ![field] = value])
    /\ UNCHANGED << selectedShapeId, mode, canvasVars, nextId >>
    /\ UNCHANGED << activeNotes, activeNotesRef >>

\* ShapeEditor: the Delete Shape button.
EditorDelete ==
    /\ mode = EDIT
    /\ selectedShapeIndex # 0
    /\ deleteShape(shapes[selectedShapeIndex].id)
    /\ UNCHANGED << mode, canvasVars, nextId >>
    /\ UNCHANGED << activeNotes, activeNotesRef >>

\* ShapeEditor: the close button.
EditorClose ==
    /\ mode = EDIT
    /\ selectedShapeIndex # 0
    /\ selectedShapeId' = Null
    /\ UNCHANGED << shapes, mode, canvasVars, nextId >>
    /\ UNCHANGED << activeNotes, activeNotesRef >>

\* App.handleMidiMessage(event): the ref is replaced at once and the state on the
\* re-render that follows.
\* handleMidiMessage clearing the selection on every event.
handleMidiMessage_Deselects(data) ==
    /\ activeNotesRef' = handleMidiMessageMap(activeNotesRef, data)
    /\ activeNotes' = activeNotesRef'
    /\ selectedShapeId' = Null
    /\ UNCHANGED << shapes, mode, canvasVars, nextId >>

handleMidiMessage(data) ==
    /\ activeNotesRef' = handleMidiMessageMap(activeNotesRef, data)
    /\ activeNotes' = activeNotesRef'
    /\ UNCHANGED << appVars, canvasVars, nextId >>

\* handleMidiMessage writing into the Map object it read, without the copy.
OldMapAfter_InPlace(m, data) == handleMidiMessageMap(m, data)

\* What handleMidiMessage leaves in the Map object `m` it read from
\* activeNotesRef.current: set and delete go to the copy `new Map(m)`, so the
\* object that was read keeps its entries.
OldMapAfter(m, data) == m

\* A render pass without an event: shapes.map(...) calls isShapeActive, which
\* only calls activeNotes.has and activeNotes.get.
RenderPass ==
    /\ UNCHANGED << appVars, canvasVars, nextId >>
    /\ UNCHANGED << activeNotes, activeNotesRef >>

-----------------------------------------------------------------------------
(* Hardware events *)

NoteOnBytes(c, n, v) == << 144 + (c - 1), n, v >>
NoteOffBytes(c, n, v) == << 128 + (c - 1), n, v >>

\* Events that are neither a note-on nor a note-off of a (channel, note): control
\* change, aftertouch, and events cut short of their note byte.
OtherMessages ==
    { << >>, << 144 >>, << 128 >>, << 176 >> }
    \cup { << 176, n, v >> : n \in NoteBytes, v \in VelBytes }
    \cup { << 160 + (c - 1), n, v >> : c \in Channels, n \in NoteBytes, v \in {127} }

-----------------------------------------------------------------------------
(* Initial state and history *)

\* What the witnesses need of the state a step started from.
Snapshot ==
    [ mode              |-> mode,
      isDrawing         |-> isDrawing,
      nPoints           |-> Len(drawingPoints),
      nShapes           |-> Len(shapes),
      selectedShapeId   |-> selectedShapeId,
      draggedPointIndex |-> draggedPointIndex,
      noteKeys          |-> DOMAIN activeNotesRef,
      noteOffKey        |-> IF lastEvent.name = "noteOff"
                            THEN getNoteKey(parseMidiMessage(lastEvent.arg).channel,
                                            parseMidiMessage(lastEvent.arg).note)
                            ELSE "" ]

\* The step handled event `name` with input `arg`, from the state Snapshot.
Record(name, arg) ==
    /\ lastEvent' = [name |-> name, arg |-> arg]
    /\ prev' = Snapshot

\* No scripted session: every event source is free.
NoRun == [phase |-> "free", h |-> 0, u |-> 0, ref |-> << >>]

Init ==
    /\ shapes = << >>
    /\ selectedShapeId = Null
    /\ activeNotes = EmptyMap
    /\ activeNotesRef = EmptyMap
    /\ mode = EDIT
    /\ drawingPoints = << >>
    /\ isDrawing = FALSE
    /\ draggedPointIndex = Null
    /\ keydownShapes = << >>
    /\ nextId = 1
    /\ lastNoteEvent = [p \in Channels \X NoteBytes |-> "none"]
    /\ moveCount = 0
    /\ dragRegionId = Null
    /\ handedMap = EmptyMap
    /\ run = NoRun
    /\ lastEvent = [name |-> "init", arg |-> 0]
    /\ prev = Snapshot

-----------------------------------------------------------------------------
(* The hardware event source *)

DeliverNoteOn(c, n, v) ==
    /\ handleMidiMessage(NoteOnBytes(c, n, v))
    /\ handedMap' = OldMapAfter(activeNotesRef, NoteOnBytes(c, n, v))
    /\ UNCHANGED << moveCount, dragRegionId, run >>
    /\ lastNoteEvent' = [lastNoteEvent EXCEPT ![<<c, n>>] = IF v > 0 THEN "on" ELSE "off"]
    /\ Record("noteOn", NoteOnBytes(c, n, v))

DeliverNoteOff(c, n, v) ==
    /\ handleMidiMessage(NoteOffBytes(c, n, v))
    /\ handedMap' = OldMapAfter(activeNotesRef, NoteOffBytes(c, n, v))
    /\ UNCHANGED << moveCount, dragRegionId, run >>
    /\ lastNoteEvent' = [lastNoteEvent EXCEPT ![<<c, n>>] = "off"]
    /\ Record("noteOff", NoteOffBytes(c, n, v))

\* A two-byte note-on or note-off: no velocity byte.
DeliverShort(status, c, n) ==
    /\ handleMidiMessage(<< status + (c - 1), n >>)
    /\ handedMap' = OldMapAfter(activeNotesRef, << status + (c - 1), n >>)
    /\ UNCHANGED << moveCount, dragRegionId, run >>
    /\ lastNoteEvent' = [lastNoteEvent EXCEPT ![<<c, n>>] = "off"]
    /\ Record("short", << status + (c - 1), n >>)

DeliverOther(data) ==
    /\ handleMidiMessage(data)
    /\ handedMap' = OldMapAfter(activeNotesRef, data)
    /\ UNCHANGED << lastNoteEvent, moveCount, dragRegionId, run >>
    /\ Record("other", data)

NextMidi ==
    \/ \E c \in Channels, n \in NoteBytes, v \in VelBytes : DeliverNoteOn(c, n, v)
    \/ \E c \in Channels, n \in NoteBytes, v \in VelBytes : DeliverNoteOff(c, n, v)
    \/ \E status \in {128, 144}, c \in Channels, n \in NoteBytes : DeliverShort(status, c, n)
    \/ \E data \in OtherMessages : DeliverOther(data)

SpecMidi == Init /\ [][NextMidi]_vars

-----------------------------------------------------------------------------
(* The pointer and keyboard event source *)

\* History and bounds of a step of this source.  A click that adds a point is
\* let through while the session holds fewer than MaxDraw points and lands
\* elsewhere than the click before it; a click that opens a session is let through
\* while fewer than MaxShapes ids are used; window mouse moves are counted.
Clicked(p) ==
    /\ (mode = EDIT /\ isDrawing) =>
           /\ Len(drawingPoints) < MaxDraw
           /\ getCoords(p[1], p[2]) # drawingPoints[Len(drawingPoints)]
    /\ (mode = EDIT /\ ~isDrawing /\ selectedShapeId = Null) => nextId <= MaxShapes
    /\ UNCHANGED << moveCount, lastNoteEvent, dragRegionId, handedMap, run >>

Moved ==
    /\ moveCount < MaxMoves
    /\ moveCount' = moveCount + 1
    /\ UNCHANGED << lastNoteEvent, dragRegionId, handedMap, run >>

NotMoved == UNCHANGED << moveCount, lastNoteEvent, dragRegionId, handedMap, run >>

\* A handle mouse-down opens a drag session on the selected shape.
Grabbed ==
    /\ dragRegionId' = selectedShapeId
    /\ UNCHANGED << moveCount, lastNoteEvent, handedMap, run >>

\* The pointer-up closes the drag session.
Released ==
    /\ dragRegionId' = Null
    /\ UNCHANGED << moveCount, lastNoteEvent, handedMap, run >>

\* Drawing, selecting, deleting, the keys and the mode buttons.
NextDraw ==
    \/ \E p \in ClickPositions :
          Clicked(p) /\ SvgClick(p[1], p[2]) /\ Record("svgClick", p)
    \/ \E id \in ShapeIds(shapes), p \in ClickPositions :
          ShapeClick(id, p[1], p[2]) /\ Record("shapeClick", id) /\ NotMoved
    \/ \E key \in {"Enter", "Escape"} :
          KeyDown(key) /\ Record("keydown", key) /\ NotMoved
    \/ Perform /\ Record("perform", 0) /\ NotMoved
    \/ ExitPerformance /\ Record("exitPerformance", 0) /\ NotMoved
    \/ \E id \in ShapeIds(shapes) :
          MatrixSelect(id) /\ Record("matrixSelect", id) /\ NotMoved
    \/ \E id \in ShapeIds(shapes) :
          MatrixDelete(id) /\ Record("matrixDelete", id) /\ NotMoved
    \/ EditorDelete /\ Record("editorDelete", 0) /\ NotMoved
    \/ EditorClose /\ Record("editorClose", 0) /\ NotMoved

\* Dragging a vertex handle.
NextDrag ==
    \/ \E i \in 1..MaxDraw :
          HandleMouseDown(i) /\ Record("handleMouseDown", i) /\ Grabbed
    \/ \E p \in MovePositions :
          WindowMouseMove(p[1], p[2]) /\ Record("mousemove", p) /\ Moved
    \/ WindowMouseUp /\ Record("mouseup", 0) /\ Released

NextUI == NextDraw \/ NextDrag

\* The authoring surface without the drag handles.
SpecDraw == Init /\ [][NextDraw]_vars

\* The authoring surface.
SpecUI == Init /\ [][NextUI]_vars

\* Two committed shapes of three and of four points, the second one still
\* selected: the state after two draw sessions.
Quad == << getCoords(200, 150), getCoords(400, 100), getCoords(200, 150), getCoords(400, 100) >>

InitDrag ==
    /\ shapes = << NewShape(<< >>, 1, << getCoords(200, 150), getCoords(400, 100), getCoords(200, 150) >>),
                   NewShape(<< 1 >>, 2, Quad) >>
    /\ selectedShapeId = 2
    /\ activeNotes = EmptyMap
    /\ activeNotesRef = EmptyMap
    /\ mode = EDIT
    /\ drawingPoints = << >>
    /\ isDrawing = FALSE
    /\ draggedPointIndex = Null
    /\ keydownShapes = shapes
    /\ nextId = 3
    /\ lastNoteEvent = [p \in Channels \X NoteBytes |-> "none"]
    /\ moveCount = 0
    /\ dragRegionId = Null
    /\ handedMap = EmptyMap
    /\ run = NoRun
    /\ lastEvent = [name |-> "init", arg |-> 0]
    /\ prev = Snapshot

\* Changing the selection and deleting, without drawing.
NextSelect ==
    \/ \E id \in ShapeIds(shapes), p \in ClickPositions :
          ShapeClick(id, p[1], p[2]) /\ Record("shapeClick", id) /\ NotMoved
    \/ KeyDown("Escape") /\ Record("keydown", "Escape") /\ NotMoved
    \/ \E id \in ShapeIds(shapes) :
          MatrixDelete(id) /\ Record("matrixDelete", id) /\ NotMoved

\* Drag sessions on shapes that exist, with the selection changing under them.
SpecDrag == InitDrag /\ [][NextDrag \/ NextSelect]_vars

-----------------------------------------------------------------------------
(* Rendering: one committed shape, its trigger configuration edited in the
   shape editor, against the hardware events, in EDIT mode and then (the editor
   being closed there) in PERFORMANCE mode *)

Triangle == << getCoords(200, 150), getCoords(400, 100), getCoords(200, 150) >>

\* The state after three clicks on the empty surface and Enter.
InitRender ==
    /\ shapes = << NewShape(<< >>, 1, Triangle) >>
    /\ selectedShapeId = 1
    /\ activeNotes = EmptyMap
    /\ activeNotesRef = EmptyMap
    /\ mode = EDIT
    /\ drawingPoints = << >>
    /\ isDrawing = FALSE
    /\ draggedPointIndex = Null
    /\ keydownShapes = shapes
    /\ nextId = 2
    /\ lastNoteEvent = [p \in Channels \X NoteBytes |-> "none"]
    /\ moveCount = 0
    /\ dragRegionId = Null
    /\ handedMap = EmptyMap
    /\ run = NoRun
    /\ lastEvent = [name |-> "init", arg |-> 0]
    /\ prev = Snapshot

\* Values typed into the editor's fields.
EditChannels == {0, 1, 16}
EditNotes == {60, 61, 62}
EditOpacities == {50, 100}

NoHistory == UNCHANGED << lastNoteEvent, moveCount, dragRegionId, handedMap, run, lastEvent, prev >>

NextRender ==
    \/ \E c \in Channels, n \in NoteBytes, v \in VelBytes :
          handleMidiMessage(NoteOnBytes(c, n, v)) /\ NoHistory
    \/ \E c \in Channels, n \in NoteBytes :
          handleMidiMessage(NoteOffBytes(c, n, 0)) /\ NoHistory
    \/ \E c \in EditChannels : EditorChange("channel", c) /\ NoHistory
    \/ \E n \in EditNotes : EditorChange("noteStart", n) /\ NoHistory
    \/ \E n \in EditNotes : EditorChange("noteEnd", n) /\ NoHistory
    \/ \E b \in BOOLEAN : EditorChange("velocitySensitive", b) /\ NoHistory
    \/ \E o \in EditOpacities : EditorChange("baseOpacity", o) /\ NoHistory
    \/ Perform /\ NoHistory

SpecRender == InitRender /\ [][NextRender]_vars

\* Hardware events and render passes with one shape on the surface.
NextSnapshot ==
    \/ NextMidi
    \/ RenderPass /\ Record("render", 0) /\ NotMoved

SpecSnapshot == InitRender /\ [][NextSnapshot]_vars

-----------------------------------------------------------------------------
(* The whole program: both event sources and the editor *)

Next ==
    \/ NextUI
    \/ NextMidi
    \/ NextRender

Spec == Init /\ [][Next]_vars

-----------------------------------------------------------------------------
(* Properties of the activation store *)

\* The (channel, note) pairs whose last note-on/note-off event was a note-on
\* with velocity > 0.
LastWasNoteOn == { p \in Channels \X NoteBytes : lastNoteEvent[p] = "on" }

\* C1: after any sequence of events delivered to handleMidiMessage from the
\* empty store, the keys of the store are exactly the keys of the (channel,
\* note) pairs whose last event was a note-on with velocity > 0.
C1_StoreIsLastNoteOn ==
    /\ DOMAIN activeNotesRef = { getNoteKey(p[1], p[2]) : p \in LastWasNoteOn }
    /\ activeNotes = activeNotesRef

\* A note-off has just removed an entry while another pair is still sounding.
C1_Witness ==
    /\ lastEvent.name = "noteOff"
    /\ prev.noteKeys \ DOMAIN activeNotesRef # {}
    /\ DOMAIN activeNotesRef # {}
    /\ \E p \in Channels \X NoteBytes : lastNoteEvent[p] = "off"

\* C2: from every store state, a note-on with velocity 0 for (c, n) leaves the
\* same store as a note-off for (c, n), whatever its release velocity, and that
\* store has no entry for (c, n).
C2_ZeroVelocityIsNoteOff ==
    \A c \in Channels, n \in NoteBytes :
        LET afterOn == handleMidiMessageMap(activeNotesRef, NoteOnBytes(c, n, 0))
        IN  /\ \A v \in VelBytes :
                  afterOn = handleMidiMessageMap(activeNotesRef, NoteOffBytes(c, n, v))
            /\ ~MapHas(afterOn, getNoteKey(c, n))
            /\ \A k \in DOMAIN activeNotesRef :
                  k # getNoteKey(c, n) => MapHas(afterOn, k) /\ afterOn[k] = activeNotesRef[k]

\* A note-on with velocity 0 has just removed the entry of its (channel, note).
C2_Witness ==
    /\ lastEvent.name = "noteOn"
    /\ lastEvent.arg[3] = 0
    /\ LET key == getNoteKey(parseMidiMessage(lastEvent.arg).channel, lastEvent.arg[2])
       IN  key \in prev.noteKeys /\ ~MapHas(activeNotesRef, key)

-----------------------------------------------------------------------------
(* Properties of the matcher and of the rendered opacity *)

\* The (channel, note) entries of the snapshot that match the shape: the note
\* lies in the shape's range and the channel is the shape's filter, or any of
\* the channels 1..16 when the filter is 0.
MatchingEntries(shape) ==
    LET notes    == { n \in 0..127 : shape.noteStart <= n /\ n <= shape.noteEnd }
        channels == { c \in 1..16 : shape.channel = 0 \/ shape.channel = c }
    IN  { p \in channels \X notes : MapHas(activeNotes, getNoteKey(p[1], p[2])) }

\* The velocities of the snapshot entries that match the shape.
MatchingVelocities(shape) ==
    { activeNotes[getNoteKey(p[1], p[2])].velocity : p \in MatchingEntries(shape) }

\* The largest member of a non-empty set of integers.
Maximum(S) == CHOOSE m \in S : \A v \in S : v <= m

\* C3: the matcher reports a shape active if and only if the snapshot holds at
\* least one matching (channel, note) entry; a shape with noteStart > noteEnd
\* is inactive whatever the snapshot holds.
C3_ActiveIffMatchingEntry ==
    \A i \in DOMAIN shapes :
        /\ isShapeActive(shapes[i]).active <=> MatchingEntries(shapes[i]) # {}
        /\ shapes[i].noteStart > shapes[i].noteEnd => ~isShapeActive(shapes[i]).active

\* A shape with a one-channel filter is active, and the snapshot also holds an
\* entry that does not match it.
C3_Witness ==
    \E i \in DOMAIN shapes :
        /\ shapes[i].channel # 0
        /\ isShapeActive(shapes[i]).active
        /\ DOMAIN activeNotes # { getNoteKey(p[1], p[2]) : p \in MatchingEntries(shapes[i]) }

\* C4: for an active shape the matcher returns the maximum velocity over all
\* the snapshot entries that match the shape.
C4_VelocityIsMaximum ==
    \A i \in DOMAIN shapes :
        isShapeActive(shapes[i]).active =>
            /\ MatchingVelocities(shapes[i]) # {}
            /\ isShapeActive(shapes[i]).velocity = Maximum(MatchingVelocities(shapes[i]))

\* An omni shape matches entries of two channels with different velocities,
\* the louder one on the channel scanned last.
C4_Witness ==
    \E i \in DOMAIN shapes :
        /\ shapes[i].channel = 0
        /\ MapHas(activeNotes, getNoteKey(1, 60))
        /\ MapHas(activeNotes, getNoteKey(16, 60))
        /\ shapes[i].noteStart <= 60 /\ 60 <= shapes[i].noteEnd
        /\ activeNotes[getNoteKey(1, 60)].velocity < activeNotes[getNoteKey(16, 60)].velocity
        /\ isShapeActive(shapes[i]).velocity = activeNotes[getNoteKey(16, 60)].velocity

\* The opacity the rule of the specification gives a shape, as a multiple of
\* 1 / OpacityScale, with `inactive` the opacity of a shape that is not active.
RuleOpacity(shape, inactive) ==
    IF MatchingEntries(shape) # {}
    THEN IF shape.velocitySensitive
         THEN Maximum(MatchingVelocities(shape)) * shape.baseOpacity
         ELSE 127 * shape.baseOpacity
    ELSE inactive

\* C5 as stated: the fill opacity is baseOpacity for an active shape that is
\* not velocity-sensitive, (maxVelocity / 127) * baseOpacity for an active
\* velocity-sensitive shape, and 0 for an inactive shape in every mode.
C5_Original ==
    \A i \in DOMAIN shapes : Opacity(shapes[i]) = RuleOpacity(shapes[i], 0)

\* C5, amended: as above for an active shape; an inactive shape has opacity 0
\* in PERFORMANCE mode and opacity 0.2 in EDIT mode.
C5_OpacityRule ==
    \A i \in DOMAIN shapes :
        Opacity(shapes[i]) =
            RuleOpacity(shapes[i], IF mode = EDIT THEN (OpacityScale \div 10) * 2 ELSE 0)

\* A velocity-sensitive shape of base opacity 0.5 is rendered active in
\* PERFORMANCE mode with a velocity below 127.
C5_Witness ==
    \E i \in DOMAIN shapes :
        /\ mode = PERFORMANCE
        /\ shapes[i].velocitySensitive
        /\ shapes[i].baseOpacity = 50
        /\ isShapeActive(shapes[i]).active
        /\ Opacity(shapes[i]) = 64 * 50

-----------------------------------------------------------------------------
(* Properties of the authoring surface *)

\* The step is the delivery of a keydown of `key` to the window.
KeyStep(key) == lastEvent'.name = "keydown" /\ lastEvent'.arg = key

\* The state was reached by a keydown of `key`.
AfterKey(key) == lastEvent.name = "keydown" /\ lastEvent.arg = key

\* C6 as stated: Enter while drawing with fewer than 3 points is a no-op: the
\* surface stays drawing, the points are kept and no shape is created.
C6_Original ==
    [][ (KeyStep("Enter") /\ isDrawing /\ Len(drawingPoints) < 3) =>
            /\ isDrawing'
            /\ drawingPoints' = drawingPoints
            /\ shapes' = shapes ]_vars

\* C6, amended: Enter while drawing with fewer than 3 points creates no shape;
\* in EDIT mode it discards the points and ends the session, leaving the
\* selection alone, and in PERFORMANCE mode it changes nothing.
C6_ShortCommitDiscards ==
    [][ (KeyStep("Enter") /\ isDrawing /\ Len(drawingPoints) < 3) =>
            /\ shapes' = shapes
            /\ selectedShapeId' = selectedShapeId
            /\ IF mode = EDIT
               THEN ~isDrawing' /\ drawingPoints' = << >>
               ELSE isDrawing' /\ drawingPoints' = drawingPoints ]_vars

\* Enter has just ended, in EDIT mode, a session of two points.
C6_Witness ==
    /\ AfterKey("Enter")
    /\ prev.mode = EDIT /\ prev.isDrawing /\ prev.nPoints = 2
    /\ ~isDrawing /\ drawingPoints = << >>
    /\ Len(shapes) = prev.nShapes

\* C7, in EDIT mode: Enter while drawing with n >= 3 points appends exactly one
\* shape to the registry, with the n points in click order and the default
\* configuration; the session is emptied and ended, and the shapes that existed
\* are unchanged.
C7_CommitAppendsOne ==
    [][ (KeyStep("Enter") /\ mode = EDIT /\ isDrawing /\ Len(drawingPoints) >= 3) =>
            /\ Len(shapes') = Len(shapes) + 1
            /\ SubSeq(shapes', 1, Len(shapes)) = shapes
            /\ LET new == shapes'[Len(shapes')]
               IN  /\ new.points = drawingPoints
                   /\ new.channel = 0
                   /\ new.noteStart = 60 /\ new.noteEnd = 60
                   /\ ~new.velocitySensitive
                   /\ new.baseOpacity = 100
            /\ drawingPoints' = << >>
            /\ ~isDrawing' ]_vars

\* C8 as stated: Escape while drawing always ends the session with no points
\* left and creates no shape, however many points had been drawn.
C8_Original ==
    [][ (KeyStep("Escape") /\ isDrawing) =>
            /\ ~isDrawing'
            /\ drawingPoints' = << >>
            /\ shapes' = shapes ]_vars

\* C8, amended: Escape while drawing in EDIT mode ends the session with no
\* points left and creates no shape, however many points had been drawn; in
\* PERFORMANCE mode it leaves the session as it is and returns to EDIT mode.
C8_CancelDiscards ==
    [][ (KeyStep("Escape") /\ isDrawing) =>
            /\ shapes' = shapes
            /\ IF mode = EDIT
               THEN ~isDrawing' /\ drawingPoints' = << >>
               ELSE isDrawing' /\ drawingPoints' = drawingPoints /\ mode' = EDIT ]_vars

\* Escape has just discarded, in EDIT mode, a session of three or more points.
C8_Witness ==
    /\ AfterKey("Escape")
    /\ prev.mode = EDIT /\ prev.isDrawing /\ prev.nPoints >= 3
    /\ ~isDrawing /\ drawingPoints = << >>
    /\ Len(shapes) = prev.nShapes

\* C9: the surface is never drawing while a vertex handle is being dragged.
C9_DrawingExcludesDragging == ~(isDrawing /\ draggedPointIndex # Null)

\* C10: a pointer move handled during a drag in which a selected shape exists
\* stores, at the dragged index of that shape, a point with x and y in 0..100:
\* 0 for a coordinate below 0, 100 for a coordinate above 100, the coordinate
\* itself otherwise; clamping the stored point again does not change it.
C10_DragStoresClamped ==
    [][ (lastEvent'.name = "mousemove" /\ selectedShapeIndex # 0) =>
            LET raw    == getCoords(lastEvent'.arg[1], lastEvent'.arg[2])
                stored == shapes'[selectedShapeIndex].points[draggedPointIndex]
                Fits(r, v) == /\ v \in 0..100
                              /\ r < 0 => v = 0
                              /\ r > 100 => v = 100
                              /\ r \in 0..100 => v = r
                              /\ Clamp(v) = v
            IN  /\ draggedPointIndex # Null
                /\ Fits(raw.x, stored.x)
                /\ Fits(raw.y, stored.y) ]_vars

\* A move to the left of and below the surface has just stored the corner (0, 100).
C10_Witness ==
    /\ lastEvent.name = "mousemove"
    /\ getCoords(lastEvent.arg[1], lastEvent.arg[2]).x < 0
    /\ getCoords(lastEvent.arg[1], lastEvent.arg[2]).y > 100
    /\ draggedPointIndex # Null
    /\ selectedShapeIndex # 0
    /\ shapes[selectedShapeIndex].points[draggedPointIndex] = [x |-> 0, y |-> 100]

\* C11: a pointer-up during a drag ends the drag and leaves the surface idle
\* (neither dragging nor drawing), whatever is selected and whether or not the
\* dragged shape still exists; while no handle is held, no pointer move
\* changes a shape.
C11_PointerUpReturnsToIdle ==
    [][ /\ lastEvent'.name = "mouseup" =>
              /\ draggedPointIndex' = Null
              /\ ~isDrawing'
              /\ shapes' = shapes
        /\ (lastEvent'.name = "mousemove" /\ draggedPointIndex = Null) =>
              shapes' = shapes ]_vars

\* C12 as stated: Escape has its effect in every mode: a draw session is
\* discarded, and otherwise the selection is cleared.
C12_Original ==
    [][ KeyStep("Escape") =>
            IF isDrawing
            THEN ~isDrawing' /\ drawingPoints' = << >>
            ELSE selectedShapeId' = Null ]_vars

\* C12, amended: in EDIT mode Escape discards the draw session if there is
\* one, leaving the selection alone, and otherwise clears the selection; in
\* PERFORMANCE mode it only switches the mode back to EDIT.  It never changes
\* the registry.
C12_EscapeEffect ==
    [][ KeyStep("Escape") =>
            /\ shapes' = shapes
            /\ IF mode = EDIT
               THEN /\ mode' = EDIT
                    /\ ~isDrawing' /\ drawingPoints' = << >>
                    /\ selectedShapeId' = IF isDrawing THEN selectedShapeId ELSE Null
               ELSE /\ mode' = EDIT
                    /\ UNCHANGED << isDrawing, drawingPoints, selectedShapeId >> ]_vars

\* Escape has just cleared, in EDIT mode and with no draw session, the selection.
C12_Witness ==
    /\ AfterKey("Escape")
    /\ prev.mode = EDIT /\ ~prev.isDrawing /\ prev.selectedShapeId # Null
    /\ selectedShapeId = Null /\ ~isDrawing
    /\ Len(shapes) = prev.nShapes /\ Len(shapes) > 0

-----------------------------------------------------------------------------
(* Properties of the decoder and of the store under irregular events *)

\* The state was reached by the delivery of a hardware event.
AfterMidi == lastEvent.name \in {"noteOn", "noteOff", "short", "other"}

\* C13: for every delivered message of 2 or 3 bytes, parseMidiMessage gives
\* the high nibble of byte 0 as command (0..15), the low nibble of byte 0 plus
\* 1 as channel (1..16), byte 1 as note, and as velocity byte 2 if there is
\* one and 0 otherwise.
C13_ParseFields ==
    (AfterMidi /\ Len(lastEvent.arg) \in {2, 3}) =>
        LET data == lastEvent.arg
            msg  == parseMidiMessage(data)
        IN  /\ DOMAIN msg = {"command", "channel", "note", "velocity"}
            /\ msg.command \in 0..15
            /\ msg.channel \in 1..16
            /\ msg.command * 16 + (msg.channel - 1) = data[1]
            /\ msg.note = data[2]
            /\ msg.velocity = IF Len(data) = 3 THEN data[3] ELSE 0

\* A two-byte note-on of channel 16 has just been parsed: velocity 0.
C13_Witness ==
    /\ lastEvent.name = "short"
    /\ lastEvent.arg[1] = 144 + 15
    /\ parseMidiMessage(lastEvent.arg) =
           [command |-> 9, channel |-> 16, note |-> lastEvent.arg[2], velocity |-> 0]

\* The shape matches at least one entry of the snapshot and is velocity-sensitive.
ScaledAndMatched(shape) == shape.velocitySensitive /\ MatchingEntries(shape) # {}

\* C14: for a velocity-sensitive shape whose baseOpacity stays the same, the
\* opacity does not decrease when the maximum matched velocity does not
\* decrease (and does not increase when it does not increase), and the opacity
\* is baseOpacity exactly when the maximum matched velocity is 127.
C14_OpacityMonotonic ==
    [][ \A i \in DOMAIN shapes :
          /\ ScaledAndMatched(shapes[i]) =>
                (Opacity(shapes[i]) = 127 * shapes[i].baseOpacity
                    <=> Maximum(MatchingVelocities(shapes[i])) = 127)
          /\ ( /\ ScaledAndMatched(shapes[i])
               /\ ScaledAndMatched(shapes[i])'
               /\ shapes[i].baseOpacity' = shapes[i].baseOpacity ) =>
                LET before == Maximum(MatchingVelocities(shapes[i]))
                    after  == Maximum(MatchingVelocities(shapes[i]))'
                IN  /\ before <= after => Opacity(shapes[i]) <= Opacity(shapes[i])'
                    /\ before >= after => Opacity(shapes[i]) >= Opacity(shapes[i])' ]_vars

\* A velocity-sensitive shape of base opacity 0.5 matches entries of velocity
\* 64 and 127 and is rendered at exactly 0.5.
C14_Witness ==
    \E i \in DOMAIN shapes :
        /\ ScaledAndMatched(shapes[i])
        /\ shapes[i].baseOpacity = 50
        /\ MatchingVelocities(shapes[i]) = {64, 127}
        /\ Opacity(shapes[i]) = 127 * 50

\* The key of the (channel, note) of a message.
KeyOf(data) == getNoteKey(parseMidiMessage(data).channel, parseMidiMessage(data).note)

\* C15: a note-off for a key that has no entry leaves the entries of the store
\* and their velocities as they were, in the ref and in the rendered state.
C15_NoteOffOfAbsentKey ==
    [][ ( /\ lastEvent'.name = "noteOff"
          /\ ~MapHas(activeNotesRef, KeyOf(lastEvent'.arg)) ) =>
            /\ activeNotesRef' = activeNotesRef
            /\ activeNotes' = activeNotesRef ]_vars

\* A note-off for a key without entry has just been handled while another key
\* has an entry.
C15_Witness ==
    /\ lastEvent.name = "noteOff"
    /\ KeyOf(lastEvent.arg) \notin prev.noteKeys
    /\ prev.noteKeys # {}
    /\ DOMAIN activeNotesRef = prev.noteKeys
    /\ activeNotes = activeNotesRef

\* C16: an event of fewer than 2 bytes, whatever its status byte, leaves the
\* store as it was, and a note-on with velocity > 0 that follows it is stored
\* as usual.
C16_MalformedIgnored ==
    [][ /\ (lastEvent'.name = "other" /\ Len(lastEvent'.arg) < 2) =>
              /\ activeNotesRef' = activeNotesRef
              /\ activeNotes' = activeNotesRef
        /\ ( /\ lastEvent.name = "other"
             /\ Len(lastEvent.arg) < 2
             /\ lastEvent'.name = "noteOn"
             /\ lastEvent'.arg[3] > 0 ) =>
              /\ MapHas(activeNotesRef', KeyOf(lastEvent'.arg))
              /\ activeNotesRef'[KeyOf(lastEvent'.arg)].velocity = lastEvent'.arg[3]
              /\ activeNotes' = activeNotesRef' ]_vars

\* A one-byte note-on status has just been handled with entries in the store.
C16_Witness ==
    /\ lastEvent.name = "other"
    /\ lastEvent.arg = << 144 >>
    /\ prev.noteKeys # {}
    /\ DOMAIN activeNotesRef = prev.noteKeys

-----------------------------------------------------------------------------
(* Properties of clicks on the surface *)

\* C17: a click on the surface in EDIT mode during a draw session, on the
\* background or on the body of a shape, keeps the session open and appends
\* exactly one point to it, leaving the earlier points as they were.
C17_ClickAppendsPoint ==
    [][ ( /\ lastEvent'.name \in {"svgClick", "shapeClick"}
          /\ mode = EDIT
          /\ isDrawing ) =>
            /\ isDrawing'
            /\ Len(drawingPoints') = Len(drawingPoints) + 1
            /\ SubSeq(drawingPoints', 1, Len(drawingPoints)) = drawingPoints ]_vars

\* C18 as stated: a draw session is started only by a background click made
\* with nothing selected, and starts with the click's point alone; a background
\* click made while idle with a shape selected clears the selection and starts
\* no session.
C18_Original ==
    [][ /\ (~isDrawing /\ isDrawing') =>
              /\ lastEvent'.name = "svgClick"
              /\ selectedShapeId = Null
              /\ drawingPoints' = << getCoords(lastEvent'.arg[1], lastEvent'.arg[2]) >>
        /\ ( /\ lastEvent'.name = "svgClick"
             /\ ~isDrawing /\ draggedPointIndex = Null
             /\ selectedShapeId # Null ) =>
              /\ selectedShapeId' = Null
              /\ ~isDrawing' ]_vars

\* C18, amended: a draw session is started only by a background click made in
\* EDIT mode with nothing selected, and starts with the click's point alone; a
\* background click made while idle with a shape selected starts no session,
\* and clears the selection in EDIT mode (in PERFORMANCE mode it keeps it).
C18_StartOfSession ==
    [][ /\ (~isDrawing /\ isDrawing') =>
              /\ lastEvent'.name = "svgClick"
              /\ mode = EDIT
              /\ selectedShapeId = Null
              /\ drawingPoints' = << getCoords(lastEvent'.arg[1], lastEvent'.arg[2]) >>
        /\ ( /\ lastEvent'.name = "svgClick"
             /\ ~isDrawing /\ draggedPointIndex = Null
             /\ selectedShapeId # Null ) =>
              /\ selectedShapeId' = IF mode = EDIT THEN Null ELSE selectedShapeId
              /\ ~isDrawing'
              /\ drawingPoints' = drawingPoints ]_vars

\* A background click has just cleared the selection without starting a session.
C18_Witness ==
    /\ lastEvent.name = "svgClick"
    /\ prev.mode = EDIT /\ ~prev.isDrawing /\ prev.selectedShapeId # Null
    /\ selectedShapeId = Null
    /\ ~isDrawing /\ drawingPoints = << >>

\* C19: a click on the body of a shape in EDIT mode, while neither drawing nor
\* dragging, selects that shape and changes nothing else.
C19_BodyClickSelects ==
    [][ ( /\ lastEvent'.name = "shapeClick"
          /\ mode = EDIT
          /\ ~isDrawing /\ draggedPointIndex = Null ) =>
            /\ selectedShapeId' = lastEvent'.arg
            /\ UNCHANGED << isDrawing, drawingPoints, draggedPointIndex, shapes, mode >>
            /\ UNCHANGED << activeNotes, activeNotesRef >> ]_vars

\* A body click has just moved the selection from one shape to another.
C19_Witness ==
    /\ lastEvent.name = "shapeClick"
    /\ prev.mode = EDIT /\ ~prev.isDrawing /\ prev.draggedPointIndex = Null
    /\ prev.selectedShapeId # Null
    /\ prev.selectedShapeId # lastEvent.arg
    /\ selectedShapeId = lastEvent.arg
    /\ Len(shapes) = 2

-----------------------------------------------------------------------------
(* Properties of a drag session *)

\* The shape differs from `old` at most in the point at index `index`.
SameButPoint(old, new, index) ==
    /\ [new EXCEPT !.points = old.points] = old
    /\ Len(new.points) = Len(old.points)
    /\ \A j \in DOMAIN old.points : j # index => new.points[j] = old.points[j]

\* C20: a pointer move during a drag changes only the point at the dragged
\* index of the shape whose handle was pressed: the other points of that shape,
\* its number of points, its id and its configuration, and every other shape
\* stay as they were, whatever has been selected or deleted since the
\* mouse-down.
C20_DragBoundToPressedShape ==
    [][ lastEvent'.name = "mousemove" =>
            /\ Len(shapes') = Len(shapes)
            /\ \A i \in DOMAIN shapes :
                  IF shapes[i].id = dragRegionId
                  THEN SameButPoint(shapes[i], shapes'[i], draggedPointIndex)
                  ELSE shapes'[i] = shapes[i] ]_vars

-----------------------------------------------------------------------------
(* Properties of the two event sources *)

-----------------------------------------------------------------------------
(* A scripted session: one sequence of hardware events and one sequence of
   pointer and keyboard events.  The pointer and keyboard events are first
   handled alone, the authoring state after each of them being kept in
   run.ref; the page is then reloaded and the two sequences are handled again
   in every interleaving. *)

HardwareScript ==
    << NoteOnBytes(1, 60, 64), NoteOnBytes(16, 61, 127), NoteOffBytes(1, 60, 0),
       NoteOnBytes(1, 60, 127), NoteOnBytes(16, 61, 0) >>

PointerScript ==
    << [name |-> "svgClick",        arg |-> << 200, 150 >>],
       [name |-> "svgClick",        arg |-> << 400, 100 >>],
       [name |-> "svgClick",        arg |-> << 200, 150 >>],
       [name |-> "keydown",         arg |-> "Enter"],
       [name |-> "handleMouseDown", arg |-> 1],
       [name |-> "mousemove",       arg |-> << 0, 300 >>],
       [name |-> "mouseup",         arg |-> 0],
       [name |-> "keydown",         arg |-> "Escape"],
       [name |-> "svgClick",        arg |-> << 400, 100 >>],
       [name |-> "shapeClick",      arg |-> 1],
       [name |-> "perform",         arg |-> 0],
       [name |-> "keydown",         arg |-> "Escape"],
       [name |-> "keydown",         arg |-> "Escape"],
       [name |-> "matrixDelete",    arg |-> 1] >>

\* The authoring state: the registry, the selection, the mode and the sessions.
Authoring ==
    [ shapes            |-> shapes,
      selectedShapeId   |-> selectedShapeId,
      mode              |-> mode,
      drawingPoints     |-> drawingPoints,
      isDrawing         |-> isDrawing,
      draggedPointIndex |-> draggedPointIndex ]

\* The store after the first k events of HardwareScript, handled from the
\* empty store.
RECURSIVE StoreAfter(_)
StoreAfter(k) ==
    IF k = 0 THEN EmptyMap
    ELSE handleMidiMessageMap(StoreAfter(k - 1), HardwareScript[k])

\* The handler that the event e of PointerScript reaches.
PointerHandler(e) ==
    \/ e.name = "svgClick" /\ SvgClick(e.arg[1], e.arg[2])
    \/ e.name = "shapeClick" /\ ShapeClick(e.arg, 200, 150)
    \/ e.name = "keydown" /\ KeyDown(e.arg)
    \/ e.name = "handleMouseDown" /\ HandleMouseDown(e.arg)
    \/ e.name = "mousemove" /\ WindowMouseMove(e.arg[1], e.arg[2])
    \/ e.name = "mouseup" /\ WindowMouseUp
    \/ e.name = "perform" /\ Perform
    \/ e.name = "matrixDelete" /\ MatrixDelete(e.arg)

\* The next event of PointerScript is handled.
PointerStep ==
    /\ run.u < Len(PointerScript)
    /\ LET e == PointerScript[run.u + 1]
       IN  /\ PointerHandler(e)
           /\ Record(e.name, e.arg)
           /\ dragRegionId' = IF e.name = "handleMouseDown" THEN selectedShapeId
                              ELSE IF e.name = "mouseup" THEN Null
                              ELSE dragRegionId
           /\ moveCount' = IF e.name = "mousemove" THEN moveCount + 1 ELSE moveCount
    /\ UNCHANGED << lastNoteEvent, handedMap >>

\* The next event of HardwareScript is handled.
HardwareStep ==
    /\ run.h < Len(HardwareScript)
    /\ handleMidiMessage(HardwareScript[run.h + 1])
    /\ handedMap' = OldMapAfter(activeNotesRef, HardwareScript[run.h + 1])
    /\ Record("hardware", HardwareScript[run.h + 1])
    /\ UNCHANGED << lastNoteEvent, moveCount, dragRegionId >>

\* Reference pass: pointer and keyboard events alone.
ReferenceStep ==
    /\ run.phase = "reference"
    /\ PointerStep
    /\ run' = [run EXCEPT !.u = @ + 1, !.ref = Append(@, Authoring')]

\* The page is reloaded after the reference pass: every useState and useRef
\* starts again from its initial value.
Reload ==
    /\ run.phase = "reference"
    /\ run.u = Len(PointerScript)
    /\ run' = [run EXCEPT !.phase = "interleaved", !.u = 0]
    /\ shapes' = << >>
    /\ selectedShapeId' = Null
    /\ activeNotes' = EmptyMap
    /\ activeNotesRef' = EmptyMap
    /\ mode' = EDIT
    /\ drawingPoints' = << >>
    /\ isDrawing' = FALSE
    /\ draggedPointIndex' = Null
    /\ keydownShapes' = << >>
    /\ nextId' = 1
    /\ moveCount' = 0
    /\ dragRegionId' = Null
    /\ handedMap' = EmptyMap
    /\ lastEvent' = [name |-> "reload", arg |-> 0]
    /\ prev' = Snapshot
    /\ UNCHANGED lastNoteEvent

InterleavedPointerStep ==
    /\ run.phase = "interleaved"
    /\ PointerStep
    /\ run' = [run EXCEPT !.u = @ + 1]

InterleavedHardwareStep ==
    /\ run.phase = "interleaved"
    /\ HardwareStep
    /\ run' = [run EXCEPT !.h = @ + 1]

InitInterleave ==
    /\ shapes = << >>
    /\ selectedShapeId = Null
    /\ activeNotes = EmptyMap
    /\ activeNotesRef = EmptyMap
    /\ mode = EDIT
    /\ drawingPoints = << >>
    /\ isDrawing = FALSE
    /\ draggedPointIndex = Null
    /\ keydownShapes = << >>
    /\ nextId = 1
    /\ lastNoteEvent = [p \in Channels \X NoteBytes |-> "none"]
    /\ moveCount = 0
    /\ dragRegionId = Null
    /\ handedMap = EmptyMap
    /\ run = [phase |-> "reference", h |-> 0, u |-> 0, ref |-> << >>]
    /\ lastEvent = [name |-> "init", arg |-> 0]
    /\ prev = Snapshot

NextInterleave ==
    \/ ReferenceStep
    \/ Reload
    \/ InterleavedPointerStep
    \/ InterleavedHardwareStep

SpecInterleave == InitInterleave /\ [][NextInterleave]_vars

\* The authoring state with which the interleaved pass starts and the one the
\* reference pass had after its first k events.
ReferenceAuthoring(k) ==
    IF k = 0
    THEN [ shapes |-> << >>, selectedShapeId |-> Null, mode |-> EDIT,
           drawingPoints |-> << >>, isDrawing |-> FALSE, draggedPointIndex |-> Null ]
    ELSE run.ref[k]

\* C22: a hardware event changes only the store, a pointer or keyboard event
\* never changes the store, and when h hardware events and u pointer and
\* keyboard events of the two sequences have been handled, in whatever order,
\* the store is the one the h hardware events give alone and the authoring
\* state is the one the u pointer and keyboard events give alone.
C22_SourcesIndependent ==
    [][ run'.phase = "interleaved" =>
            /\ run'.h # run.h => Authoring' = Authoring
            /\ run'.u # run.u => UNCHANGED << activeNotes, activeNotesRef >>
            /\ activeNotesRef' = StoreAfter(run'.h)
            /\ activeNotes' = StoreAfter(run'.h)
            /\ Authoring' = ReferenceAuthoring(run'.u) ]_vars

\* Both sequences have been handled to their end, the last hardware event
\* before the last pointer events: the store holds one entry and the registry
\* is empty again.
C22_Witness ==
    /\ run.phase = "interleaved"
    /\ run.h = Len(HardwareScript)
    /\ run.u = Len(PointerScript)
    /\ lastEvent.name = "matrixDelete"
    /\ DOMAIN activeNotesRef = { getNoteKey(1, 60) }
    /\ shapes = << >>
    /\ Len(run.ref) = Len(PointerScript)

-----------------------------------------------------------------------------
\* A note-on is handled right after a note-off (command 8) of the same key
\* that found no entry for the key: the two events of a key in crossed order.
CrossedOrder ==
    /\ lastEvent.name = "noteOff"
    /\ lastEvent'.name = "noteOn"
    /\ KeyOf(lastEvent.arg) = KeyOf(lastEvent'.arg)
    /\ ~MapHas(handedMap, KeyOf(lastEvent.arg))

\* C23 as stated: when the note-off of a key is delivered before its note-on,
\* the store has no entry for the key after the note-on.
C23_Original ==
    [][ CrossedOrder => ~MapHas(activeNotesRef', KeyOf(lastEvent'.arg)) ]_vars

\* C23: when the note-off of a key is delivered before its note-on, the
\* note-off changes nothing and the note-on is applied as any other: with a
\* velocity above 0 the store ends with an entry of that velocity for the key,
\* with velocity 0 it ends with no entry for the key.
C23_CrossedOrderKeepsNoteOn ==
    [][ CrossedOrder =>
            LET key == KeyOf(lastEvent'.arg)
                v   == parseMidiMessage(lastEvent'.arg).velocity
            IN  /\ activeNotesRef = handedMap
                /\ IF v > 0
                   THEN /\ MapHas(activeNotesRef', key)
                        /\ activeNotesRef'[key].velocity = v
                   ELSE ~MapHas(activeNotesRef', key)
                /\ activeNotes' = activeNotesRef' ]_vars

\* The note-off of channel 16, note 61 came first while another key was held,
\* and the note-on that followed it left an entry of velocity 127.
C23_Witness ==
    /\ lastEvent.name = "noteOn"
    /\ prev.noteOffKey = getNoteKey(16, 61)
    /\ prev.noteKeys = { getNoteKey(1, 60) }
    /\ MapHas(activeNotesRef, getNoteKey(16, 61))
    /\ activeNotesRef[getNoteKey(16, 61)].velocity = 127
    /\ KeyOf(lastEvent.arg) = getNoteKey(16, 61)

-----------------------------------------------------------------------------
(* Properties of the registry *)

\* C24: every shape of the registry has at least 3 points, and a pointer move
\* during a drag leaves the number of points of every shape as it was.
C24_AtLeastThreePoints ==
    [][ /\ \A i \in DOMAIN shapes' : Len(shapes'[i].points) >= 3
        /\ lastEvent'.name = "mousemove" =>
              /\ Len(shapes') = Len(shapes)
              /\ \A i \in DOMAIN shapes :
                    Len(shapes'[i].points) = Len(shapes[i].points) ]_vars

-----------------------------------------------------------------------------
\* C25: an event whose command is neither 8 nor 9 leaves the store, in the ref
\* and in the rendered state, with the entries and velocities it had, whatever
\* its other bytes are.
C25_OtherCommandsIgnored ==
    [][ ( /\ AfterMidi'
          /\ parseMidiMessage(lastEvent'.arg).command \notin {8, 9} ) =>
            /\ activeNotesRef' = activeNotesRef
            /\ activeNotes' = activeNotesRef ]_vars

\* A control change carrying the note byte of a held key and a last byte of 0
\* was handled, and the key is still held with its velocity.
C25_Witness ==
    /\ lastEvent.name = "other"
    /\ lastEvent.arg = << 176, 60, 0 >>
    /\ prev.noteKeys = { getNoteKey(1, 60) }
    /\ MapHas(activeNotesRef, getNoteKey(1, 60))
    /\ activeNotesRef[getNoteKey(1, 60)].velocity = 64

-----------------------------------------------------------------------------
\* C26: the selection is null or the id of a shape of the registry; deleting
\* the selected shape clears the selection, deleting another shape leaves it as
\* it was, and an Enter that commits a session of at least 3 points selects the
\* shape it has added to the registry.
C26_SelectionInRegistry ==
    [][ /\ selectedShapeId' = Null \/ selectedShapeId' \in ShapeIds(shapes')
        /\ lastEvent'.name \in {"matrixDelete", "editorDelete"} =>
              LET id == IF lastEvent'.name = "matrixDelete"
                        THEN lastEvent'.arg ELSE selectedShapeId
              IN  /\ id \notin ShapeIds(shapes')
                  /\ selectedShapeId' = IF selectedShapeId = id
                                        THEN Null ELSE selectedShapeId
        /\ ( /\ lastEvent'.name = "keydown"
             /\ lastEvent'.arg = "Enter"
             /\ mode = EDIT /\ isDrawing /\ Len(drawingPoints) >= 3 ) =>
              /\ selectedShapeId' \notin ShapeIds(shapes)
              /\ selectedShapeId' # Null
              /\ shapes'[Len(shapes')].id = selectedShapeId'
              /\ shapes'[Len(shapes')].points = drawingPoints ]_vars

\* The selected one of two shapes was deleted from its row of the matrix: the
\* other shape remains and nothing is selected.
C26_Witness ==
    /\ lastEvent.name = "matrixDelete"
    /\ prev.selectedShapeId = lastEvent.arg
    /\ prev.nShapes = 2
    /\ Len(shapes) = 1
    /\ selectedShapeId = Null

-----------------------------------------------------------------------------
\* C27: in PERFORMANCE mode a click on the surface, a click on a shape and the
\* Enter and Escape keys leave the draw session, the selection and the registry
\* as they were; Escape switches the mode to EDIT and the others leave the
\* mode; entering and leaving PERFORMANCE mode leave the draw session as it
\* was, so a session open on entry is open with the same points on return.
C27_PerformanceModeInert ==
    [][ /\ ( /\ mode = PERFORMANCE
             /\ lastEvent'.name \in {"svgClick", "shapeClick", "keydown"} ) =>
              /\ UNCHANGED << drawingPoints, isDrawing, selectedShapeId, shapes >>
              /\ mode' = IF lastEvent'.name = "keydown" /\ lastEvent'.arg = "Escape"
                         THEN EDIT ELSE PERFORMANCE
        /\ lastEvent'.name \in {"perform", "exitPerformance"} =>
              UNCHANGED << drawingPoints, isDrawing, selectedShapeId, shapes >> ]_vars

\* Escape was pressed in PERFORMANCE mode with a session of two points open
\* and a shape in the registry: the mode is EDIT and the session is open with
\* its two points.
C27_Witness ==
    /\ lastEvent.name = "keydown"
    /\ lastEvent.arg = "Escape"
    /\ prev.mode = PERFORMANCE
    /\ prev.isDrawing
    /\ prev.nPoints = 2
    /\ mode = EDIT
    /\ isDrawing
    /\ Len(drawingPoints) = 2
    /\ Len(shapes) = 1

====
